---- MODULE Spec2Model ----
(***************************************************************************)
(* Constant serialization of libra's oracle (SerializeConstant.cpp): the   *)
(* classifier serialize_const, the constant-data, aggregate, global        *)
(* reference and constant-expression encoders, the synthetic scope made by *)
(* prepare_for_serialization and the label maps of                         *)
(* FunctionSerializationContext.                                           *)
(***************************************************************************)
EXTENDS Integers, Sequences, FiniteSets, TLC

\* ------------------------------------------------------------------ bounds
\* longest aggregate / dense data sequence that is enumerated
MaxElems == 2
\* serialize_constant calls of one session, over all constants
MaxCalls == 1
\* serialize_constant calls of one session, over SessionConstants
MaxSessionCalls == 3
\* prepare_for_serialization calls of one session
MaxPrepare == 2
\* identities handed to each label map of a FunctionSerializationContext
MaxBlocks == 2
MaxInsts == 2
MaxArgs == 2

VARIABLES
  OPT_MAX_BITS_FOR_INT,  \* the configured integer width threshold
  NDEBUG,                \* whether the build compiles assert() away
  module_functions,      \* the functions the llvm::Module holds
  synthetic,             \* instruction list of the block of each synthetic scope made
  dummy_function,        \* the three globals of SerializeConstant.cpp:205-207
  dummy_block,
  dummy_instruction,
  log,                   \* what has been handed to LOG, in order
  aborted,               \* the process was terminated (fatal, failed assert, exception)
  ncalls,                \* serialize_constant calls made so far
  val,                   \* argument of the latest serialize_constant call
  result,                \* what that call returned, NoResult when it did not return
  seen,                  \* an earlier call of the session, kept for comparison
  block_labels_,         \* FunctionSerializationContext's three maps
  inst_labels_,
  arg_labels_,
  blocks_added,          \* identities in the order of their first add_* call
  insts_added,
  args_added,
  last                   \* the latest context operation and its outcome

session_vars == <<OPT_MAX_BITS_FOR_INT, module_functions, synthetic, dummy_function,
                  dummy_block, dummy_instruction, log, ncalls, val, result, seen>>
ctxt_vars == <<NDEBUG, block_labels_, inst_labels_, arg_labels_,
               blocks_added, insts_added, args_added, last>>
vars == <<session_vars, ctxt_vars, aborted>>

RECURSIVE serialize_constant(_, _)
RECURSIVE serialize_const(_, _)
RECURSIVE data_sequence_loop(_, _, _, _)
RECURSIVE pack_aggregate_loop(_, _, _, _)
RECURSIVE serialize_const_expr(_, _)
RECURSIVE serialize_inst(_, _, _)
RECURSIVE operands_loop(_, _, _, _)

\* ------------------------------------------------------------------- JSON
\* json::Value(nullptr)
JNull == [json |-> "null"]
\* a default-constructed json::Object
EmptyObject == [k \in {} |-> k]
\* obj[key] = v
ObjectSet(obj, key, v) == (key :> v) @@ obj

NULL == 0
NoResult == [returned |-> FALSE]
None == [none |-> TRUE]

\* ------------------------------------------------------------------ APInt
\* An APInt is its bit width and its magnitude in 16-bit words, least
\* significant first, as many words as the width needs.
WordMax == 2^16 - 1
Words(w) == (w + 15) \div 16
APInt(w, U) == [BitWidth |-> w, U |-> U]
UINT64_MAX == <<WordMax, WordMax, WordMax, WordMax>>
\* words of a uint64_t
U64Words == 64 \div 16

\* index of the highest non-zero word (0 for the value zero)
RECURSIVE ActiveWords(_, _)
ActiveWords(U, i) ==
  IF i = 0 THEN 0 ELSE IF U[i] # 0 THEN i ELSE ActiveWords(U, i - 1)

\* APInt::getZExtValue: the low 64 bits as a uint64_t
getZExtValue(a) ==
  [i \in 1..U64Words |-> IF i <= Len(a.U) THEN a.U[i] ELSE 0]

\* x > y on two uint64_t, compared from the most significant word down
RECURSIVE U64Greater(_, _, _)
U64Greater(x, y, i) ==
  IF i = 0 THEN FALSE
  ELSE IF x[i] # y[i] THEN x[i] > y[i]
  ELSE U64Greater(x, y, i - 1)

\* APInt::ugt(uint64_t RHS)
ugt(a, RHS) ==
  IF ActiveWords(a.U, Len(a.U)) <= U64Words
    THEN U64Greater(getZExtValue(a), RHS, U64Words)
    ELSE TRUE

\* APInt::getLimitedValue(uint64_t Limit)
getLimitedValue(a, Limit) == IF ugt(a, Limit) THEN Limit ELSE getZExtValue(a)

\* ----------------------------------------------------------------- Logger
\* the state a serializer works on: the log stream and the synthetic blocks
Env == [log |-> log, synthetic |-> synthetic]

\* Logger::record: one message handed to the stream
record(env, level, fmt, arg) ==
  [env EXCEPT !.log = Append(@, [level |-> level, fmt |-> fmt, arg |-> arg])]

\* what a serializer hands back: ok = it returned, json = what it returned,
\* env = the session state it leaves
Ret(json, env) == [ok |-> TRUE, json |-> json, env |-> env]

\* Logger::error: logs and returns
error(env, fmt, arg) == record(env, "Error", fmt, arg)

\* LOG->fatal: logs and terminates; the caller never resumes
fatal(env, fmt, arg) ==
  [ok |-> FALSE, json |-> JNull, env |-> record(env, "Fatal", fmt, arg)]

\* ------------------------------------------------- the LLVM value classes
\* direct base class of each concrete or abstract class of llvm::Constant
Parent ==
  [ ConstantInt |-> "ConstantData", ConstantFP |-> "ConstantData",
    ConstantPointerNull |-> "ConstantData", ConstantTokenNone |-> "ConstantData",
    ConstantTargetNone |-> "ConstantData", UndefValue |-> "ConstantData",
    PoisonValue |-> "UndefValue", ConstantAggregateZero |-> "ConstantData",
    ConstantDataSequential |-> "ConstantData",
    ConstantDataArray |-> "ConstantDataSequential",
    ConstantDataVector |-> "ConstantDataSequential",
    ConstantDataOther |-> "ConstantData",
    ConstantData |-> "Constant",
    BlockAddress |-> "Constant",
    ConstantArray |-> "ConstantAggregate", ConstantStruct |-> "ConstantAggregate",
    ConstantVector |-> "ConstantAggregate", ConstantAggregateOther |-> "ConstantAggregate",
    ConstantAggregate |-> "Constant",
    GlobalVariable |-> "GlobalObject", Function |-> "GlobalObject",
    GlobalIFunc |-> "GlobalObject", GlobalObject |-> "GlobalValue",
    GlobalAlias |-> "GlobalValue", GlobalValueOther |-> "GlobalValue",
    GlobalValue |-> "Constant",
    ConstantExpr |-> "Constant",
    DSOLocalEquivalent |-> "Constant", NoCFIValue |-> "Constant",
    ConstantOther |-> "Constant",
    Constant |-> "Constant" ]

RECURSIVE DerivesFrom(_, _)
DerivesFrom(cls, base) ==
  IF cls = base THEN TRUE
  ELSE IF cls = "Constant" THEN FALSE
  ELSE DerivesFrom(Parent[cls], base)

\* llvm::isa<base>(v)
isa(base, v) == DerivesFrom(v.cls, base)

\* ------------------------------------------------------------- the module
\* The global values of the module under serialization: name ("" when
\* anonymous) and what the definition holds (initializer, aliasee, resolver).
\* @g and @h are initialized with each other's address.
Globals ==
  [ g  |-> [cls |-> "GlobalVariable", name |-> "g", def |-> "h"],
    h  |-> [cls |-> "GlobalVariable", name |-> "h", def |-> "g"],
    v0 |-> [cls |-> "GlobalVariable", name |-> "",  def |-> "f"],
    f  |-> [cls |-> "Function",       name |-> "f", def |-> "f"],
    f0 |-> [cls |-> "Function",       name |-> "",  def |-> "g"],
    a  |-> [cls |-> "GlobalAlias",    name |-> "a", def |-> "g"],
    a0 |-> [cls |-> "GlobalAlias",    name |-> "",  def |-> "v0"],
    r  |-> [cls |-> "GlobalIFunc",    name |-> "r", def |-> "f"],
    x  |-> [cls |-> "GlobalValueOther", name |-> "x", def |-> "x"] ]

\* the functions the module holds before the session starts
\* (a function of the module is named by its global, a synthetic one by the
\* number of the scope it was made for)
ModuleFunctions ==
  { [global |-> id, scope |-> 0] : id \in {g \in DOMAIN Globals : Globals[g].cls = "Function"} }

\* Value::hasName, Value::getName
hasName(v) == Globals[v.gid].name # ""
getName(v) == Globals[v.gid].name

\* ---------------------------------------------------------- the constants
\* Every constant carries its class, its type, and the fields of its class:
\* Val (ConstantInt, ConstantFP), gid (global values, markers), opcode
\* (ConstantExpr), ops (operands or packed elements).
Ty(id, bits) == [id |-> id, bits |-> bits]
Const(cls, ty, v, gid, opcode, ops) ==
  [cls |-> cls, ty |-> ty, Val |-> v, gid |-> gid, opcode |-> opcode, ops |-> ops]

CInt(w, U) == Const("ConstantInt", Ty("Integer", w), APInt(w, U), "", "", <<>>)
CFP(f) == Const("ConstantFP", Ty("Double", 64), f, "", "", <<>>)
CLeaf(cls, ty) == Const(cls, Ty(ty, 0), APInt(0, <<>>), "", "", <<>>)
CGlobal(gid) == Const(Globals[gid].cls, Ty("Pointer", 0), APInt(0, <<>>), gid, "", <<>>)
CMarker(cls, gid) == Const(cls, Ty("Pointer", 0), APInt(0, <<>>), gid, "", <<>>)
CPack(cls, ty, ops) == Const(cls, Ty(ty, Len(ops)), APInt(0, <<>>), "", "", ops)
CExpr(opcode, ty, ops) == Const("ConstantExpr", ty, APInt(0, <<>>), "", opcode, ops)

\* the value of a magnitude is below 2^w
FitsWidth(w, U) == U[Words(w)] < 2^(w - 16 * (Words(w) - 1))

\* magnitudes whose low 64 bits repeat the word lo and whose higher bits
\* repeat the word hi
Magnitude(w, lo, hi) == [i \in 1..Words(w) |-> IF i <= U64Words THEN lo ELSE hi]

IntWidths == {8, 64, 65, 128}
IntConstants ==
  { CInt(t[1], Magnitude(t[1], t[2], t[3])) :
      t \in { u \in IntWidths \X {42, WordMax} \X {0, 1} :
                /\ FitsWidth(u[1], Magnitude(u[1], u[2], u[3]))
                /\ (u[1] <= 64 => u[3] = 0) } }

\* an APFloat: sign, integral part, tenths
FPConstants ==
  { CFP([neg |-> FALSE, whole |-> 1, tenths |-> 5]),
    CFP([neg |-> TRUE, whole |-> 2, tenths |-> 0]) }

I8_42 == CInt(8, <<42>>)
I8_0 == CInt(8, <<0>>)
\* 65 bits wide, magnitude 42
I65_42 == CInt(65, <<42, 0, 0, 0, 0>>)
\* 128 bits wide, magnitude 2^64 + 42
I128_Big == CInt(128, <<42, 0, 0, 0, 1, 0, 0, 0>>)

SimpleConstants ==
  { CLeaf("ConstantPointerNull", "Pointer"), CLeaf("ConstantTokenNone", "Token"),
    CLeaf("ConstantTargetNone", "TargetExt"), CLeaf("UndefValue", "Struct"),
    CLeaf("PoisonValue", "Struct"), CLeaf("ConstantAggregateZero", "Array"),
    CLeaf("BlockAddress", "Pointer") }

GlobalConstants == { CGlobal(gid) : gid \in DOMAIN Globals }

DSOMarker == CMarker("DSOLocalEquivalent", "f")
NoCFIMarker == CMarker("NoCFIValue", "f")
MarkerConstants == { DSOMarker, NoCFIMarker }

\* classes the dispatch does not know
UnknownConstants ==
  { CLeaf("ConstantDataOther", "Other"), CLeaf("ConstantAggregateOther", "Other"),
    CLeaf("ConstantOther", "Other") }

\* a cast of the integer 42, the address of @g as an integer
ExprCast42 == CExpr("inttoptr", Ty("Pointer", 0), <<CInt(64, <<42, 0, 0, 0>>)>>)
ExprPtrToInt == CExpr("ptrtoint", Ty("Integer", 64), <<CGlobal("g")>>)

Leaves ==
  IntConstants \cup {I8_0, I8_42, I65_42, I128_Big} \cup FPConstants \cup SimpleConstants \cup GlobalConstants
    \cup MarkerConstants \cup UnknownConstants

\* sequences of 1..n members of S
SeqsUpTo(S, n) == UNION { [1..k -> S] : k \in 1..n }

PackedClasses == {"ConstantArray", "ConstantStruct", "ConstantVector"}
DataClasses == {"ConstantDataArray", "ConstantDataVector"}

\* operands of the enumerated aggregates
OperandPool == { I8_42, CGlobal("v0") }

Aggregates ==
  { CPack(cls, "Array", ops) : <<cls, ops>> \in PackedClasses \X SeqsUpTo(OperandPool, MaxElems) }

\* packed elements: all of one primitive type
DataSequences ==
  { CPack(cls, "Array", ops) :
      <<cls, ops>> \in DataClasses \X
         (SeqsUpTo({I8_0, I8_42}, MaxElems)
            \cup SeqsUpTo({CFP([neg |-> FALSE, whole |-> 1, tenths |-> 5])}, MaxElems)) }

\* constants nested two and three deep
DeepPool == { DSOMarker, I128_Big, I65_42, ExprCast42 }
Nested ==
  { CPack("ConstantStruct", "Struct", <<I8_42, CPack("ConstantArray", "Array", <<d>>)>>) :
      d \in DeepPool }
  \cup { CExpr("bitcast", Ty("Pointer", 0), <<d>>) : d \in DeepPool \cup {ExprPtrToInt} }
  \cup { CExpr("getelementptr", Ty("Pointer", 0),
               <<CGlobal("h"), CPack("ConstantVector", "Vector", <<d>>)>>) : d \in DeepPool }

Expressions == { ExprCast42, ExprPtrToInt }

Constants == Leaves \cup Aggregates \cup DataSequences \cup Expressions \cup Nested

\* ------------------------------------------------------ type and float text
\* serialize_type: the type descriptor of a value's type
serialize_type(ty) ==
  IF ty.id = "Integer"
    THEN ObjectSet(EmptyObject, "Int", ObjectSet(EmptyObject, "width", ty.bits))
    ELSE ObjectSet(EmptyObject, ty.id, JNull)

Digit == <<"0", "1", "2", "3", "4", "5", "6", "7", "8", "9">>
\* APFloat::toString: sign, integral digits, and the fraction when there is one
toString(f) ==
  (IF f.neg THEN "-" ELSE "") \o Digit[f.whole + 1]
    \o (IF f.tenths = 0 THEN "" ELSE "." \o Digit[f.tenths + 1])

\* ------------------------------------------------------------ serializers
\* result[tag] = <what the callee returned>; return result
Tagged(tag, r) ==
  IF r.ok THEN Ret(ObjectSet(EmptyObject, tag, r.json), r.env) ELSE r

\* serialize_const_data_int with the width test off by one (>= for >)
serialize_const_data_int_ge(v, env) ==
  LET e1 == IF v.Val.BitWidth >= OPT_MAX_BITS_FOR_INT
              THEN error(env, "constant integer width exceeds limit: {0}", v.Val.BitWidth)
              ELSE env
  IN  IF ugt(v.Val, UINT64_MAX)
        THEN fatal(e1, "constant integer value exceeds limit: {0}", v.Val.U)
        ELSE Ret(ObjectSet(EmptyObject, "value", getLimitedValue(v.Val, UINT64_MAX)), e1)

\* serialize_const_data_int without the magnitude test: the value saturates
serialize_const_data_int_saturating(v, env) ==
  LET e1 == IF v.Val.BitWidth > OPT_MAX_BITS_FOR_INT
              THEN error(env, "constant integer width exceeds limit: {0}", v.Val.BitWidth)
              ELSE env
  IN  Ret(ObjectSet(EmptyObject, "value", getLimitedValue(v.Val, UINT64_MAX)), e1)

serialize_const_data_int(v, env) ==
  LET e1 == IF v.Val.BitWidth > OPT_MAX_BITS_FOR_INT
              THEN error(env, "constant integer width exceeds limit: {0}", v.Val.BitWidth)
              ELSE env
  IN  IF ugt(v.Val, UINT64_MAX)
        THEN fatal(e1, "constant integer value exceeds limit: {0}", v.Val.U)
        ELSE Ret(ObjectSet(EmptyObject, "value", getLimitedValue(v.Val, UINT64_MAX)), e1)

serialize_const_data_float(v, env) ==
  Ret(ObjectSet(EmptyObject, "value", toString(v.Val)), env)

\* the loop of serialize_const_data_sequence, at index i (0-based) with the
\* elements pushed so far
data_sequence_loop(v, i, elements, env) ==
  IF ~(i < Len(v.ops)) THEN Ret(ObjectSet(EmptyObject, "elements", elements), env)
  ELSE LET r == serialize_constant(v.ops[i + 1], env)
       IN  IF r.ok THEN data_sequence_loop(v, i + 1, Append(elements, r.json), r.env)
           ELSE r

serialize_const_data_sequence(v, env) == data_sequence_loop(v, 0, <<>>, env)

\* the loop of serialize_const_pack_aggregate
pack_aggregate_loop(v, i, elements, env) ==
  IF ~(i < Len(v.ops)) THEN Ret(ObjectSet(EmptyObject, "elements", elements), env)
  ELSE LET r == serialize_constant(v.ops[i + 1], env)
       IN  IF r.ok THEN pack_aggregate_loop(v, i + 1, Append(elements, r.json), r.env)
           ELSE r

\* serialize_const_pack_aggregate with its loop started at operand 1
serialize_const_pack_aggregate_from_one(v, env) == pack_aggregate_loop(v, 1, <<>>, env)

serialize_const_pack_aggregate(v, env) == pack_aggregate_loop(v, 0, <<>>, env)

\* serialize_const_ref_global that also follows the definition of the global
serialize_const_ref_global_inlined(v, env) ==
  Ret(ObjectSet(IF hasName(v) THEN ObjectSet(EmptyObject, "name", getName(v)) ELSE EmptyObject,
                "definition", Globals[Globals[v.gid].def].name), env)

serialize_const_ref_global(v, env) ==
  Ret(IF hasName(v) THEN ObjectSet(EmptyObject, "name", getName(v)) ELSE EmptyObject, env)

serialize_const_data_array(v, env) == serialize_const_data_sequence(v, env)
serialize_const_data_vector(v, env) == serialize_const_data_sequence(v, env)
serialize_const_pack_array(v, env) == serialize_const_pack_aggregate(v, env)
serialize_const_pack_struct(v, env) == serialize_const_pack_aggregate(v, env)
serialize_const_pack_vector(v, env) == serialize_const_pack_aggregate(v, env)
serialize_const_ref_global_variable(v, env) == serialize_const_ref_global(v, env)
serialize_const_ref_function(v, env) == serialize_const_ref_global(v, env)
serialize_const_ref_global_alias(v, env) == serialize_const_ref_global(v, env)
serialize_const_ref_interface(v, env) == serialize_const_ref_global(v, env)

\* ConstantExpr::getAsInstruction(InsertBefore): a new instruction for the
\* expression, put before InsertBefore in its block when InsertBefore is
\* not null. Gives the instruction and the blocks afterwards.
getAsInstruction(expr, InsertBefore, env) ==
  LET inst == [opcode |-> expr.opcode, ty |-> expr.ty, operands |-> expr.ops]
      blk == env.synthetic[InsertBefore]
  IN  [ inst |-> inst,
        env |-> IF InsertBefore = NULL THEN env
                ELSE [env EXCEPT !.synthetic[InsertBefore] =
                        SubSeq(blk, 1, Len(blk) - 1) \o <<inst>> \o <<blk[Len(blk)]>>] ]

\* a default-constructed FunctionSerializationContext
FreshContext == [block_labels_ |-> <<>>, inst_labels_ |-> <<>>, arg_labels_ |-> <<>>]

\* the operands of an instruction, each through serialize_constant
operands_loop(inst, i, operands, env) ==
  IF ~(i < Len(inst.operands)) THEN Ret(operands, env)
  ELSE LET r == serialize_constant(inst.operands[i + 1], env)
       IN  IF r.ok THEN operands_loop(inst, i + 1, Append(operands, r.json), r.env)
           ELSE r

\* FunctionSerializationContext::serialize_inst on an instruction whose
\* operands are all constants
serialize_inst(ctxt, inst, env) ==
  LET r == operands_loop(inst, 0, <<>>, env)
  IN  IF r.ok
        THEN Ret(ObjectSet(ObjectSet(ObjectSet(EmptyObject,
                   "ty", serialize_type(inst.ty)),
                   "opcode", inst.opcode),
                   "operands", r.json), r.env)
        ELSE r

\* serialize_const_expr that labels the new instruction by its place in the
\* block it was put in
serialize_const_expr_placed(expr, env) ==
  LET ctxt == FreshContext
      made == getAsInstruction(expr, dummy_instruction, env)
      r == serialize_inst(ctxt, made.inst, made.env)
      place == IF dummy_instruction = NULL THEN 0
               ELSE Len(made.env.synthetic[dummy_instruction])
  IN  IF r.ok THEN Ret(ObjectSet(ObjectSet(EmptyObject, "inst", r.json), "index", place), r.env)
      ELSE r

serialize_const_expr(expr, env) ==
  LET ctxt == FreshContext
      made == getAsInstruction(expr, dummy_instruction, env)
      r == serialize_inst(ctxt, made.inst, made.env)
  IN  IF r.ok THEN Ret(ObjectSet(EmptyObject, "inst", r.json), r.env) ELSE r

\* the ConstantData branch with UndefValue tested by exact class
const_data_exact_undef(v, env) ==
  IF isa("ConstantInt", v) THEN Tagged("Int", serialize_const_data_int(v, env))
  ELSE IF isa("ConstantFP", v) THEN Tagged("Float", serialize_const_data_float(v, env))
  ELSE IF isa("ConstantPointerNull", v) THEN Tagged("Null", Ret(JNull, env))
  ELSE IF isa("ConstantTokenNone", v) THEN Tagged("None", Ret(JNull, env))
  ELSE IF isa("ConstantTargetNone", v) THEN Tagged("Extension", Ret(JNull, env))
  ELSE IF v.cls = "UndefValue" THEN Tagged("Undef", Ret(JNull, env))
  ELSE IF isa("ConstantAggregateZero", v) THEN Tagged("Default", Ret(JNull, env))
  ELSE IF isa("ConstantDataArray", v) THEN Tagged("Array", serialize_const_data_array(v, env))
  ELSE IF isa("ConstantDataVector", v) THEN Tagged("Vector", serialize_const_data_vector(v, env))
  ELSE fatal(env, "unknown constant data: {0}", v.cls)

\* the ConstantData branch of serialize_const
const_data(v, env) ==
  IF isa("ConstantInt", v) THEN Tagged("Int", serialize_const_data_int(v, env))
  ELSE IF isa("ConstantFP", v) THEN Tagged("Float", serialize_const_data_float(v, env))
  ELSE IF isa("ConstantPointerNull", v) THEN Tagged("Null", Ret(JNull, env))
  ELSE IF isa("ConstantTokenNone", v) THEN Tagged("None", Ret(JNull, env))
  ELSE IF isa("ConstantTargetNone", v) THEN Tagged("Extension", Ret(JNull, env))
  ELSE IF isa("UndefValue", v) THEN Tagged("Undef", Ret(JNull, env))
  ELSE IF isa("ConstantAggregateZero", v) THEN Tagged("Default", Ret(JNull, env))
  ELSE IF isa("ConstantDataArray", v) THEN Tagged("Array", serialize_const_data_array(v, env))
  ELSE IF isa("ConstantDataVector", v) THEN Tagged("Vector", serialize_const_data_vector(v, env))
  ELSE fatal(env, "unknown constant data: {0}", v.cls)

\* the ConstantAggregate branch of serialize_const
const_aggregate(v, env) ==
  IF isa("ConstantArray", v) THEN Tagged("Array", serialize_const_pack_array(v, env))
  ELSE IF isa("ConstantStruct", v) THEN Tagged("Struct", serialize_const_pack_struct(v, env))
  ELSE IF isa("ConstantVector", v) THEN Tagged("Vector", serialize_const_pack_vector(v, env))
  ELSE fatal(env, "unknown constant aggregate: {0}", v.cls)

\* the GlobalValue branch of serialize_const
const_global(v, env) ==
  IF isa("GlobalVariable", v) THEN Tagged("Variable", serialize_const_ref_global_variable(v, env))
  ELSE IF isa("Function", v) THEN Tagged("Function", serialize_const_ref_function(v, env))
  ELSE IF isa("GlobalAlias", v) THEN Tagged("Alias", serialize_const_ref_global_alias(v, env))
  ELSE IF isa("GlobalIFunc", v) THEN Tagged("Interface", serialize_const_ref_interface(v, env))
  ELSE fatal(env, "unknown constant reference to global value: {0}", v.cls)

\* serialize_const that reports the markers with error instead of fatal
serialize_const_markers_logged(v, env) ==
  IF isa("DSOLocalEquivalent", v)
    THEN Ret(EmptyObject, error(env, "serializing a dso_local marker", v.cls))
  ELSE IF isa("NoCFIValue", v)
    THEN Ret(EmptyObject, error(env, "serializing a no-CFI marker", v.cls))
  ELSE IF isa("ConstantData", v) THEN const_data(v, env)
  ELSE IF isa("BlockAddress", v) THEN Tagged("PC", Ret(JNull, env))
  ELSE IF isa("ConstantAggregate", v) THEN const_aggregate(v, env)
  ELSE IF isa("GlobalValue", v) THEN const_global(v, env)
  ELSE IF isa("ConstantExpr", v) THEN Tagged("Expr", serialize_const_expr(v, env))
  ELSE fatal(env, "unknown constant: {0}", v.cls)

serialize_const(v, env) ==
  IF isa("DSOLocalEquivalent", v) THEN fatal(env, "serializing a dso_local marker", v.cls)
  ELSE IF isa("NoCFIValue", v) THEN fatal(env, "serializing a no-CFI marker", v.cls)
  ELSE IF isa("ConstantData", v) THEN const_data(v, env)
  ELSE IF isa("BlockAddress", v) THEN Tagged("PC", Ret(JNull, env))
  ELSE IF isa("ConstantAggregate", v) THEN const_aggregate(v, env)
  ELSE IF isa("GlobalValue", v) THEN const_global(v, env)
  ELSE IF isa("ConstantExpr", v) THEN Tagged("Expr", serialize_const_expr(v, env))
  ELSE fatal(env, "unknown constant: {0}", v.cls)

serialize_constant(v, env) ==
  LET ty == serialize_type(v.ty)
      r == serialize_const(v, env)
  IN  IF r.ok
        THEN Ret(ObjectSet(ObjectSet(EmptyObject, "ty", ty), "repr", r.json), r.env)
        ELSE r

\* ------------------------------------------------------------ the session
MaxBitsOptions == {64, 128}

Init ==
  /\ OPT_MAX_BITS_FOR_INT \in MaxBitsOptions
  /\ NDEBUG \in BOOLEAN
  /\ module_functions = ModuleFunctions
  /\ synthetic = <<>>
  /\ dummy_function = NULL
  /\ dummy_block = NULL
  /\ dummy_instruction = NULL
  /\ log = <<>>
  /\ aborted = FALSE
  /\ ncalls = 0
  /\ val = None
  /\ result = NoResult
  /\ seen = None
  /\ block_labels_ = <<>>
  /\ inst_labels_ = <<>>
  /\ arg_labels_ = <<>>
  /\ blocks_added = <<>>
  /\ insts_added = <<>>
  /\ args_added = <<>>
  /\ last = None

\* prepare_for_serialization that builds the function, the block and the
\* instruction but leaves the global dummy_instruction unset
prepare_for_serialization_unanchored ==
  /\ ~aborted
  /\ Len(synthetic) < MaxPrepare
  /\ LET k == Len(synthetic) + 1
     IN  /\ module_functions' = module_functions \cup {[global |-> "", scope |-> k]}
         /\ synthetic' = Append(synthetic, <<[opcode |-> "unreachable"]>>)
         /\ dummy_function' = k
         /\ dummy_block' = k
         /\ dummy_instruction' = dummy_instruction
  /\ UNCHANGED <<OPT_MAX_BITS_FOR_INT, log, ncalls, val, result, seen, aborted, ctxt_vars>>

\* prepare_for_serialization(module): a new internal function in the module,
\* a block in it, an unreachable instruction in the block; the three globals
\* point at them
prepare_for_serialization ==
  /\ ~aborted
  /\ Len(synthetic) < MaxPrepare
  /\ LET k == Len(synthetic) + 1
     IN  /\ module_functions' = module_functions \cup {[global |-> "", scope |-> k]}
         /\ synthetic' = Append(synthetic, <<[opcode |-> "unreachable"]>>)
         /\ dummy_function' = k
         /\ dummy_block' = k
         /\ dummy_instruction' = k
  /\ UNCHANGED <<OPT_MAX_BITS_FOR_INT, log, ncalls, val, result, seen, aborted, ctxt_vars>>

\* the effect of one call of serialize_constant by the adaptation layer
Call(c) ==
  /\ ~aborted
  /\ LET r == serialize_constant(c, Env)
     IN  /\ val' = c
         /\ result' = IF r.ok THEN r.json ELSE NoResult
         /\ aborted' = ~r.ok
         /\ log' = r.env.log
         /\ synthetic' = r.env.synthetic
  /\ ncalls' = ncalls + 1
  /\ UNCHANGED <<OPT_MAX_BITS_FOR_INT, module_functions, dummy_function, dummy_block,
                 dummy_instruction, ctxt_vars>>

\* a session that serializes any constant
Serialize(c) ==
  /\ ncalls < MaxCalls
  /\ Call(c)
  /\ UNCHANGED seen

SerializeAny == \E c \in Constants : Serialize(c)

Next == prepare_for_serialization \/ SerializeAny

Spec == Init /\ [][Next]_vars

\* ------------------------------------------------- a session of many calls
\* the constants a long session draws from
SessionConstants ==
  { I8_42, I65_42, I128_Big, CFP([neg |-> TRUE, whole |-> 2, tenths |-> 0]),
    CGlobal("g"), ExprCast42, ExprPtrToInt,
    CExpr("bitcast", Ty("Pointer", 0), <<ExprPtrToInt>>),
    CPack("ConstantStruct", "Struct", <<I65_42, ExprCast42>>) }

\* a call of a long session; the session may keep it to compare a later
\* call with
SerializeAgain(c) ==
  /\ ncalls < MaxSessionCalls
  /\ Call(c)
  /\ \/ UNCHANGED seen
     \/ seen' = [n |-> ncalls', val |-> val', result |-> result']

SerializeRepeatedly == \E c \in SessionConstants : SerializeAgain(c)

NextSession == prepare_for_serialization \/ SerializeRepeatedly

SpecSession == Init /\ [][NextSession]_vars

\* ---------------------------------- a session run by the adaptation layer
\* the adaptation layer builds the synthetic scope once, before it asks for
\* the first constant
DriverPrepare ==
  /\ Len(synthetic) = 0
  /\ ncalls = 0
  /\ prepare_for_serialization

\* and asks for constants only after that
DriverSerialize ==
  /\ Len(synthetic) > 0
  /\ SerializeRepeatedly

NextDriver == DriverPrepare \/ DriverSerialize

SpecDriver == Init /\ [][NextDriver]_vars

\* ------------------------------------------- FunctionSerializationContext
\* the identities (addresses) of the blocks, instructions and arguments of
\* the function under serialization
Blocks == 1..MaxBlocks
Insts == 1..MaxInsts
Args == 1..MaxArgs

\* std::map::size
size(m) == Cardinality(DOMAIN m)

\* std::map::emplace(key, value): inserts unless the key is there; first is
\* the map afterwards, second whether it inserted
emplace(m, key, value) ==
  IF key \in DOMAIN m THEN [first |-> m, second |-> FALSE]
  ELSE [first |-> (key :> value) @@ m, second |-> TRUE]

\* std::map::at(key) const: the mapped value, or std::out_of_range
at(m, key) ==
  IF key \in DOMAIN m THEN [thrown |-> FALSE, value |-> m[key]]
  ELSE [thrown |-> TRUE, value |-> 0]

\* assert(cond): terminates when cond is false, unless compiled away
assert(cond) == IF NDEBUG THEN "skipped" ELSE IF cond THEN "passed" ELSE "failed"

\* add with labels counted from one
add_one_based(op, m, added, key) ==
  LET index == size(m) + 1
      res == emplace(m, key, index)
      checked == assert(res.second)
  IN  [ map |-> res.first,
        added |-> IF res.second THEN Append(added, key) ELSE added,
        aborted |-> checked = "failed",
        last |-> [op |-> op, arg |-> key, inserted |-> res.second,
                  outcome |-> IF checked = "failed" THEN "assert" ELSE "returned",
                  value |-> 0] ]

\* the body shared by add_block, add_instruction and add_argument on map m
\* with call order `added`
add(op, m, added, key) ==
  LET index == size(m)
      res == emplace(m, key, index)
      checked == assert(res.second)
  IN  [ map |-> res.first,
        added |-> IF res.second THEN Append(added, key) ELSE added,
        aborted |-> checked = "failed",
        last |-> [op |-> op, arg |-> key, inserted |-> res.second,
                  outcome |-> IF checked = "failed" THEN "assert" ELSE "returned",
                  value |-> 0] ]

\* get that answers 0 for a key the map does not hold
get_or_default(op, m, key) ==
  [ aborted |-> FALSE,
    last |-> [op |-> op, arg |-> key, inserted |-> FALSE, outcome |-> "returned",
              value |-> IF key \in DOMAIN m THEN m[key] ELSE 0] ]

\* the body shared by get_block, get_instruction and get_argument
get(op, m, key) ==
  LET found == at(m, key)
  IN  [ aborted |-> found.thrown,
        last |-> [op |-> op, arg |-> key, inserted |-> FALSE,
                  outcome |-> IF found.thrown THEN "out_of_range" ELSE "returned",
                  value |-> found.value] ]

add_block(b) ==
  /\ ~aborted
  /\ LET r == add("add_block", block_labels_, blocks_added, b)
     IN  /\ block_labels_' = r.map
         /\ blocks_added' = r.added
         /\ aborted' = r.aborted
         /\ last' = r.last
  /\ UNCHANGED <<session_vars, NDEBUG, inst_labels_, arg_labels_, insts_added, args_added>>

add_instruction(i) ==
  /\ ~aborted
  /\ LET r == add("add_instruction", inst_labels_, insts_added, i)
     IN  /\ inst_labels_' = r.map
         /\ insts_added' = r.added
         /\ aborted' = r.aborted
         /\ last' = r.last
  /\ UNCHANGED <<session_vars, NDEBUG, block_labels_, arg_labels_, blocks_added, args_added>>

add_argument(a) ==
  /\ ~aborted
  /\ LET r == add("add_argument", arg_labels_, args_added, a)
     IN  /\ arg_labels_' = r.map
         /\ args_added' = r.added
         /\ aborted' = r.aborted
         /\ last' = r.last
  /\ UNCHANGED <<session_vars, NDEBUG, block_labels_, inst_labels_, blocks_added, insts_added>>

get_block(b) ==
  /\ ~aborted
  /\ LET r == get("get_block", block_labels_, b)
     IN  /\ aborted' = r.aborted
         /\ last' = r.last
  /\ UNCHANGED <<session_vars, NDEBUG, block_labels_, inst_labels_, arg_labels_,
                 blocks_added, insts_added, args_added>>

get_instruction(i) ==
  /\ ~aborted
  /\ LET r == get("get_instruction", inst_labels_, i)
     IN  /\ aborted' = r.aborted
         /\ last' = r.last
  /\ UNCHANGED <<session_vars, NDEBUG, block_labels_, inst_labels_, arg_labels_,
                 blocks_added, insts_added, args_added>>

get_argument(a) ==
  /\ ~aborted
  /\ LET r == get("get_argument", arg_labels_, a)
     IN  /\ aborted' = r.aborted
         /\ last' = r.last
  /\ UNCHANGED <<session_vars, NDEBUG, block_labels_, inst_labels_, arg_labels_,
                 blocks_added, insts_added, args_added>>

AddBlock == \E b \in Blocks : add_block(b)
AddInstruction == \E i \in Insts : add_instruction(i)
AddArgument == \E a \in Args : add_argument(a)
GetBlock == \E b \in Blocks : get_block(b)
GetInstruction == \E i \in Insts : get_instruction(i)
GetArgument == \E a \in Args : get_argument(a)

NextContext ==
  \/ AddBlock \/ AddInstruction \/ AddArgument
  \/ GetBlock \/ GetInstruction \/ GetArgument

SpecContext == Init /\ [][NextContext]_vars

\* ================================================================= claims
\* what the claims say of a call: the call made, its argument, its outcome
Called == val # None
Returned == result # NoResult

\* the tag each recognized class is encoded under
ExpectedTag ==
  [ ConstantInt |-> "Int", ConstantFP |-> "Float", ConstantPointerNull |-> "Null",
    ConstantTokenNone |-> "None", ConstantTargetNone |-> "Extension",
    UndefValue |-> "Undef", PoisonValue |-> "Undef", ConstantAggregateZero |-> "Default",
    ConstantDataArray |-> "Array", ConstantDataVector |-> "Vector",
    BlockAddress |-> "PC",
    ConstantArray |-> "Array", ConstantStruct |-> "Struct", ConstantVector |-> "Vector",
    GlobalVariable |-> "Variable", Function |-> "Function", GlobalAlias |-> "Alias",
    GlobalIFunc |-> "Interface",
    ConstantExpr |-> "Expr" ]
RecognizedClasses == DOMAIN ExpectedTag
ContainerClasses ==
  {"ConstantArray", "ConstantStruct", "ConstantVector", "ConstantDataArray",
   "ConstantDataVector", "ConstantExpr"}
GlobalClasses == {"GlobalVariable", "Function", "GlobalAlias", "GlobalIFunc"}

\* the magnitude fits 64 bits: every word above the fourth is zero
FitsU64(U) == \A i \in DOMAIN U : i > 4 => U[i] = 0
\* two word lists denote the same number
SameNumber(a, b) ==
  \A i \in (DOMAIN a) \cup (DOMAIN b) :
    (IF i \in DOMAIN a THEN a[i] ELSE 0) = (IF i \in DOMAIN b THEN b[i] ELSE 0)

\* a marker or a class outside the closed variant set, at any depth of what
\* the descent visits
RECURSIVE HasFatalConstruct(_)
HasFatalConstruct(c) ==
  \/ c.cls \notin RecognizedClasses
  \/ /\ c.cls \in ContainerClasses
     /\ \E i \in DOMAIN c.ops : HasFatalConstruct(c.ops[i])

\* an integer above UINT64_MAX, at any depth of what the descent visits
RECURSIVE HasOversizedInt(_)
HasOversizedInt(c) ==
  \/ c.cls = "ConstantInt" /\ ~FitsU64(c.Val.U)
  \/ /\ c.cls \in ContainerClasses
     /\ \E i \in DOMAIN c.ops : HasOversizedInt(c.ops[i])

Encodable(c) == ~HasFatalConstruct(c) /\ ~HasOversizedInt(c)

\* one record {ty, repr} whose repr holds the one tag of the class of c
OneTaggedRecord(c, out) ==
  /\ out # NoResult
  /\ DOMAIN out = {"ty", "repr"}
  /\ DOMAIN out.repr = {ExpectedTag[c.cls]}

\* C1 as stated: every constant that is no marker and whose class is
\* recognized is returned as one record {ty, repr} with exactly one tag, the
\* one the priority order gives its class.
C1_AsStated ==
  (Called /\ val.cls \in RecognizedClasses) => OneTaggedRecord(val, result)

\* C1 amended: every constant in which no marker, no unrecognized class and
\* no integer above UINT64_MAX occurs at any depth is returned as one record
\* {ty, repr} with exactly one tag, the one the priority order gives its
\* class.
C1_OneTaggedRecord ==
  (Called /\ Encodable(val)) => OneTaggedRecord(val, result)

C1_Witness ==
  /\ Called /\ Encodable(val) /\ Returned
  /\ val.cls = "ConstantStruct" /\ Len(val.ops) = 2
  /\ val.ops[2].cls = "ConstantArray"
  /\ DOMAIN result.repr = {"Struct"}

\* C2: a marker or a value outside the closed variant set, at any depth of
\* the descent, terminates the session: the call returns no record (so no
\* enclosing record with an empty or partial repr either) and the last thing
\* logged is the fatal message.
C2_FatalAborts ==
  (Called /\ HasFatalConstruct(val)) =>
     /\ aborted
     /\ result = NoResult
     /\ log # <<>> /\ log[Len(log)].level = "Fatal"

C2_Witness ==
  /\ Called /\ aborted /\ result = NoResult
  /\ val.cls = "ConstantStruct" /\ Len(val.ops) = 2
  /\ val.ops[2].cls = "ConstantArray"
  /\ val.ops[2].ops[1].cls = "DSOLocalEquivalent"

\* the step is a call of serialize_constant
IsCall == ncalls' = ncalls + 1
WidthError(w) ==
  [level |-> "Error", fmt |-> "constant integer width exceeds limit: {0}", arg |-> w]

\* C3: a call on an integer constant of magnitude <= UINT64_MAX returns
\* {Int: {value: v}} at every width; it logs the width error exactly when the
\* width is above the threshold, and nothing else, and does not abort.
C3_IntInRange ==
  [][ (IsCall /\ val'.cls = "ConstantInt" /\ FitsU64(val'.Val.U)) =>
        /\ ~aborted'
        /\ result' # NoResult
        /\ DOMAIN result'.repr = {"Int"}
        /\ DOMAIN result'.repr.Int = {"value"}
        /\ SameNumber(result'.repr.Int.value, val'.Val.U)
        /\ log' = IF val'.Val.BitWidth > OPT_MAX_BITS_FOR_INT
                    THEN Append(log, WidthError(val'.Val.BitWidth))
                    ELSE log ]_vars

C3_Witness ==
  /\ Called /\ Returned /\ ~aborted
  /\ val = I65_42
  /\ OPT_MAX_BITS_FOR_INT = 64
  /\ log = <<WidthError(65)>>
  /\ result.repr.Int.value = <<42, 0, 0, 0>>

\* C4: a call on an integer constant of magnitude above UINT64_MAX
\* terminates the session at every width: no record is returned, so no Int
\* payload, saturated or other, is emitted.
C4_IntOutOfRange ==
  (Called /\ val.cls = "ConstantInt" /\ ~FitsU64(val.Val.U)) =>
     /\ aborted
     /\ result = NoResult
     /\ log # <<>> /\ log[Len(log)].level = "Fatal"

C4_Witness ==
  /\ Called /\ aborted /\ result = NoResult
  /\ val.cls = "ConstantInt" /\ val.Val.BitWidth = 65
  /\ val.Val.U[5] = 1

\* C5: the elements list of an encoded aggregate or dense data sequence has
\* as many entries as the constant has operands, and its i-th entry is the
\* serialize_constant record of the i-th operand.
C5_ElementsInOrder ==
  (Called /\ Returned /\ val.cls \in (PackedClasses \cup DataClasses)) =>
     LET elements == result.repr[ExpectedTag[val.cls]].elements
     IN  /\ Len(elements) = Len(val.ops)
         /\ \A i \in 1..Len(val.ops) :
              elements[i] = serialize_constant(val.ops[i], Env).json

C5_Witness ==
  /\ Called /\ Returned
  /\ val.cls = "ConstantStruct"
  /\ val.ops = <<CGlobal("v0"), I8_42>>
  /\ Len(result.repr.Struct.elements) = 2
  /\ DOMAIN result.repr.Struct.elements[1].repr = {"Variable"}
  /\ DOMAIN result.repr.Struct.elements[2].repr = {"Int"}

\* C6: a reference to a global variable, function, alias or indirect
\* function is encoded as {name: <name>} when the global is named and as the
\* empty object when it is not, with nothing of its definition in it.
C6_GlobalByName ==
  (Called /\ val.cls \in GlobalClasses) =>
     /\ Returned
     /\ DOMAIN result.repr = {ExpectedTag[val.cls]}
     /\ LET payload == result.repr[ExpectedTag[val.cls]]
            name == Globals[val.gid].name
        IN  IF name = "" THEN DOMAIN payload = {}
            ELSE DOMAIN payload = {"name"} /\ payload.name = name

C6_Witness ==
  /\ Called /\ Returned
  /\ val = CGlobal("g")
  /\ Globals[Globals["g"].def].def = "g"
  /\ result.repr.Variable = [name |-> "g"]

\* ------------------------------------------------------ context claims
Injective(m) == \A j, k \in DOMAIN m : m[j] = m[k] => j = k
Labels(m) == { m[k] : k \in DOMAIN m }
\* the map holds exactly the identities added, the k-th added (from 0) under k
LabelledInOrder(m, added) ==
  /\ Injective(m)
  /\ Labels(m) = 0..(size(m) - 1)
  /\ DOMAIN m = { added[k] : k \in DOMAIN added }
  /\ \A k \in DOMAIN added : m[added[k]] = k - 1
\* no label of m is changed or dropped by the step
Kept(m, n) == \A k \in DOMAIN m : k \in DOMAIN n /\ n[k] = m[k]
\* the map a context operation works on
MapOf(op) ==
  CASE op \in {"add_block", "get_block"} -> block_labels_
    [] op \in {"add_instruction", "get_instruction"} -> inst_labels_
    [] op \in {"add_argument", "get_argument"} -> arg_labels_
AddOps == {"add_block", "add_instruction", "add_argument"}
GetOps == {"get_block", "get_instruction", "get_argument"}

\* C7: in each of the three maps, independently, the k-th identity added
\* (from 0) has label k and a get_* that returns gives that label; each map
\* is injective with labels exactly 0..size-1; no step changes or drops a
\* label once assigned.
C7_DenseLabels ==
  /\ [](/\ LabelledInOrder(block_labels_, blocks_added)
        /\ LabelledInOrder(inst_labels_, insts_added)
        /\ LabelledInOrder(arg_labels_, args_added)
        /\ (last # None /\ last.op \in GetOps /\ last.outcome = "returned") =>
              /\ last.arg \in DOMAIN MapOf(last.op)
              /\ last.value = MapOf(last.op)[last.arg])
  /\ [][/\ Kept(block_labels_, block_labels_')
        /\ Kept(inst_labels_, inst_labels_')
        /\ Kept(arg_labels_, arg_labels_')]_vars

C7_Witness ==
  /\ blocks_added = <<2, 1>> /\ block_labels_[2] = 0 /\ block_labels_[1] = 1
  /\ insts_added = <<1>> /\ inst_labels_[1] = 0
  /\ args_added = <<>>
  /\ last # None /\ last.op = "get_block" /\ last.arg = 1 /\ last.value = 1
  /\ ~aborted

\* C8 as stated: an add_* for an identity its map already holds fails
\* loudly; it never returns normally and never overwrites the label.
C8_DuplicateAddFails ==
  [][ \A op \in AddOps :
        (last' # last /\ last'.op = op /\ last'.arg \in DOMAIN MapOf(op)) =>
           /\ aborted'
           /\ last'.outcome = "assert"
           /\ MapOf(op)' = MapOf(op) ]_vars

\* C9: a get_* for an identity its map does not hold, held by another of the
\* three maps or not, terminates the session: it returns no label and leaves
\* the three maps as they were.
C9_UnknownLookupFatal ==
  [][ \A op \in GetOps :
        (~aborted /\ last'.op = op /\ <<last, aborted>>' # <<last, aborted>>
           /\ last'.arg \notin DOMAIN MapOf(op)) =>
           /\ aborted'
           /\ last'.outcome = "out_of_range"
           /\ <<block_labels_, inst_labels_, arg_labels_>>'
                = <<block_labels_, inst_labels_, arg_labels_>> ]_vars

C9_Witness ==
  /\ aborted
  /\ last # None /\ last.op = "get_block" /\ last.outcome = "out_of_range"
  /\ last.arg = 1
  /\ 1 \notin DOMAIN block_labels_
  /\ 1 \in DOMAIN inst_labels_

\* ------------------------------------------------------ session claims
\* C10: a call on a constant an earlier call of the session was made on
\* returns what the earlier call returned, whatever was serialized in
\* between and whatever the synthetic block holds by then.
C10_SameOutputTwice ==
  (seen # None /\ seen.n < ncalls /\ val = seen.val) => result = seen.result

C10_Witness ==
  /\ seen # None /\ seen.n + 1 < ncalls
  /\ val = seen.val /\ val.cls = "ConstantExpr"
  /\ Returned
  /\ dummy_instruction # NULL
  /\ Len(synthetic[dummy_instruction]) >= 3

\* ------------------------------------------------------------------ C11
\* what the module holds: its functions and, for each function the session
\* created in it, the instructions of that function's block
ModuleContents ==
  [ functions |-> module_functions,
    instructions |-> [ k \in { f.scope : f \in { g \in module_functions : g.scope # 0 } }
                         |-> synthetic[k] ] ]

\* C11: no call of serialize_constant changes the module: its functions,
\* blocks and instructions are the same after the call as before it
C11_ModuleUnchanged == [][IsCall => ModuleContents' = ModuleContents]_vars

\* ------------------------------------------------------------------ C12
\* the functions the session created in the module
SyntheticFunctions == { f \in module_functions : f.scope # 0 }

\* the descent into c is certain to reach serialize_const_expr: c is a
\* constant expression, or a packed aggregate whose first operand is such
RECURSIVE Materializes(_)
Materializes(c) ==
  \/ c.cls = "ConstantExpr"
  \/ /\ c.cls \in PackedClasses
     /\ Len(c.ops) >= 1
     /\ Materializes(c.ops[1])

\* a step that builds a synthetic scope
IsPrepare == module_functions' # module_functions

\* the scope came out as one function with one block holding one instruction,
\* and the three globals point at it
OneScopeBuilt ==
  /\ Cardinality(SyntheticFunctions) = 1
  /\ Len(synthetic) = 1
  /\ dummy_function # NULL /\ dummy_block = dummy_function
  /\ dummy_instruction = dummy_block

====
